---- MODULE Spec2Model ----
(***************************************************************************)
(* Model of the airfoil geometry pipeline of smart-wing-concept:           *)
(*   uiuc.requestAirfoilCoordinates  (line parsing of a .dat file)         *)
(*   Airfoil.parseCoordinates        (surface splitting, contour assembly) *)
(*   Airfoil.splineInterpolation     (panel spacing + clamped spline)      *)
(*   class Airfoil                   (the object holding `coordinates`)    *)
(*                                                                         *)
(* Python floats are modelled as exact rationals <<num, den>> (den > 0,    *)
(* lowest terms).  Python/numpy 0-based indices are written 1-based.       *)
(***************************************************************************)
EXTENDS Integers, Sequences, FiniteSets

VARIABLES
    xraw,         \* Airfoil.xraw  / argument x of parseCoordinates
    yraw,         \* Airfoil.yraw  / argument y of parseCoordinates
    coordinates,  \* Airfoil.coordinates / value returned by parseCoordinates
    temp,         \* np.argsort(x) as drawn by the last parseCoordinates call
    limits,       \* <<limits_surf1, limits_surf2>> of the last parseCoordinates call
    outcome,      \* how the last operation ended
    parsed,       \* what parseCoordinates returned in Airfoil.__init__
    lastCall,     \* <<n, pnl_scheme, pnl_rule>> of the last splineInterpolation call
    repeated,     \* the last call had the arguments of the call before it
    ncalls,       \* number of splineInterpolation calls made on the object
    delta,        \* the interval lengths computed by the last call
    lineNo,       \* requestAirfoilCoordinates: lines of the .dat file read so far
    tokens,       \* requestAirfoilCoordinates: line.split() of the last line read
    xlist,        \* requestAirfoilCoordinates: the list x
    ylist,        \* requestAirfoilCoordinates: the list y
    xline,        \* for each entry of x, the number of the line it was read from
    yline         \* for each entry of y, the number of the line it was read from

vars == <<xraw, yraw, coordinates, temp, limits, outcome,
          parsed, lastCall, repeated, ncalls, delta,
          lineNo, tokens, xlist, ylist, xline, yline>>

parseVars == <<xraw, yraw, coordinates, temp, limits>>
uiucVars == <<lineNo, tokens, xlist, ylist, xline, yline>>

airfoilVars == <<parsed, lastCall, repeated, ncalls, delta>>

\* ------------------------------------------------------------------ bounds
MaxPts == 5      \* raw points handed to parseCoordinates
MaxN == 6        \* largest point count n asked of splineInterpolation
MaxCalls == 2    \* splineInterpolation calls made on one Airfoil object
MaxLines == 2    \* lines of the .dat file read by requestAirfoilCoordinates

\* -------------------------------------------------------- float arithmetic
Abs(n) == IF n < 0 THEN -n ELSE n

RECURSIVE GCD(_, _)
GCD(a, b) == IF b = 0 THEN a ELSE GCD(b, a % b)

Rat(n, d) ==
    LET s == IF d < 0 THEN -1 ELSE 1
        g == GCD(Abs(n), Abs(d))
    IN  <<(s * n) \div g, (s * d) \div g>>

\* operands are cancelled before they are multiplied, so that intermediate
\* values stay small
RAdd(a, b) ==
    LET g == GCD(a[2], b[2])
    IN  Rat(a[1] * (b[2] \div g) + b[1] * (a[2] \div g), (a[2] \div g) * b[2])
RSub(a, b) == RAdd(a, <<-b[1], b[2]>>)
RMul(a, b) ==
    LET g1 == GCD(Abs(a[1]), b[2])
        g2 == GCD(Abs(b[1]), a[2])
    IN  <<(a[1] \div g1) * (b[1] \div g2), (a[2] \div g2) * (b[2] \div g1)>>
RDiv(a, b) == RMul(a, IF b[1] < 0 THEN <<-b[2], -b[1]>> ELSE <<b[2], b[1]>>)
RLt(a, b)  ==
    LET g == GCD(a[2], b[2])
    IN  a[1] * (b[2] \div g) < b[1] * (a[2] \div g)
RLe(a, b)  == a = b \/ RLt(a, b)

R0 == <<0, 1>>
R1 == <<1, 1>>

\* ------------------------------------------------------- python built-ins
Min2(a, b) == IF a < b THEN a ELSE b
Max2(a, b) == IF a < b THEN b ELSE a

\* min(...) / max(...) over a non-empty sequence of ints
MinInt(s) == CHOOSE m \in {s[i] : i \in 1..Len(s)} : \A j \in 1..Len(s) : m <= s[j]
MaxInt(s) == CHOOSE m \in {s[i] : i \in 1..Len(s)} : \A j \in 1..Len(s) : s[j] <= m

\* max(...) over a non-empty sequence of floats
MaxRat(s) == CHOOSE m \in {s[i] : i \in 1..Len(s)} : \A j \in 1..Len(s) : RLe(s[j], m)

\* tuple comparison (x, y) < (x', y') as used by sorted() on zipped pairs
PairLe(p, q) == RLt(p[1], q[1]) \/ (p[1] = q[1] /\ RLe(p[2], q[2]))

\* s[:2] and s[-2:]
First2(s) == SubSeq(s, 1, Min2(2, Len(s)))
Last2(s)  == SubSeq(s, Max2(1, Len(s) - 1), Len(s))

\* s[1:-1]
Interior(s) == IF Len(s) <= 2 THEN <<>> ELSE SubSeq(s, 2, Len(s) - 1)

\* s[::-1]
RECURSIVE Reverse(_)
Reverse(s) == IF s = <<>> THEN <<>> ELSE Append(Reverse(Tail(s)), Head(s))

\* s[:-1]
DropLast(s) == IF s = <<>> THEN <<>> ELSE SubSeq(s, 1, Len(s) - 1)

\* zip(a, b) and the two halves of zip(*pairs)
Zip(a, b)   == [i \in 1..Min2(Len(a), Len(b)) |-> <<a[i], b[i]>>]
Xs(pairs)   == [i \in 1..Len(pairs) |-> pairs[i][1]]
Ys(pairs)   == [i \in 1..Len(pairs) |-> pairs[i][2]]

RemoveAt(s, i) == SubSeq(s, 1, i - 1) \o SubSeq(s, i + 1, Len(s))

\* sorted(list(zip(x, y))): ascending by x, then by y
RECURSIVE Sorted(_)
Sorted(s) ==
    IF s = <<>> THEN <<>>
    ELSE LET i == CHOOSE k \in 1..Len(s) : \A j \in 1..Len(s) : PairLe(s[k], s[j])
         IN  <<s[i]>> \o Sorted(RemoveAt(s, i))

\* np.argsort(x): every index order that sorts x ascending.  The default
\* kind ("quicksort") is not stable, so the order of equal keys is any.
RECURSIVE ArgSortFrom(_, _)
ArgSortFrom(x, S) ==
    IF S = {} THEN {<<>>}
    ELSE UNION {{<<i>> \o t : t \in ArgSortFrom(x, S \ {i})} :
                i \in {k \in S : \A j \in S : RLe(x[k], x[j])}}

ArgSort(x) == ArgSortFrom(x, 1..Len(x))

\* ------------------------------------------------------- parseCoordinates
LE == <<R0, R0>>     \* (0.0, 0.0)
TE == <<R1, R0>>     \* (1.0, 0.0)

\* [(0.0, 0.0)] + sorted(list(zip(x, y)))[1:-1] + [(1.0, 0.0)]
SurfaceKeepEnds(x, y) == <<LE>> \o Sorted(Zip(x, y)) \o <<TE>>
Surface(x, y) == <<LE>> \o Interior(Sorted(Zip(x, y))) \o <<TE>>

\* sorted([min(temp[:2]), min(temp[-2:])])
Limits1(t) == <<Min2(MinInt(First2(t)), MinInt(Last2(t))),
                Max2(MinInt(First2(t)), MinInt(Last2(t)))>>

\* sorted([max(temp[:2]), max(temp[-2:])])
Limits2MinOfLast(t) == <<Min2(MaxInt(First2(t)), MinInt(Last2(t))),
                          Max2(MaxInt(First2(t)), MinInt(Last2(t)))>>
Limits2(t) == <<Min2(MaxInt(First2(t)), MaxInt(Last2(t))),
                Max2(MaxInt(First2(t)), MaxInt(Last2(t)))>>

\* x_c = x_p[::-1][:-1] + x_s
AssembleNoReverse(p, s) == DropLast(p) \o s
Assemble(p, s) == DropLast(Reverse(p)) \o s

\* if max(y1) > max(y2)
FirstIsSuctionFlipped(y1, y2) == RLt(MaxRat(y1), MaxRat(y2))
FirstIsSuction(y1, y2) == RLt(MaxRat(y2), MaxRat(y1))

\* the dictionary returned when np.argsort(x) gives t
parseCoordinates(x, y, t) ==
    LET l1 == Limits1(t)
        l2 == Limits2(t)
        x1 == SubSeq(x, l1[1], l1[2])
        y1 == SubSeq(y, l1[1], l1[2])
        x2 == SubSeq(x, l2[1], l2[2])
        y2 == SubSeq(y, l2[1], l2[2])
        first == FirstIsSuction(y1, y2)
        s  == IF first THEN Surface(x1, y1) ELSE Surface(x2, y2)
        p  == IF first THEN Surface(x2, y2) ELSE Surface(x1, y1)
    IN  [x          |-> Assemble(Xs(p), Xs(s)),
         y          |-> Assemble(Ys(p), Ys(s)),
         x_suction  |-> Xs(s), y_suction  |-> Ys(s),
         x_pressure |-> Xs(p), y_pressure |-> Ys(p)]

\* ---------------------------------------------------- splineInterpolation
RECURSIVE RPow(_, _)
RPow(r, k) == IF k = 0 THEN R1 ELSE RMul(r, RPow(r, k - 1))

RECURSIVE RSum(_)
RSum(s) == IF s = <<>> THEN R0 ELSE RAdd(Head(s), RSum(Tail(s)))

\* np.insert(np.cumsum(delta), 0, 0)
RECURSIVE CumSum0(_, _)
CumSum0(acc, s) ==
    IF s = <<>> THEN <<acc>> ELSE <<acc>> \o CumSum0(RAdd(acc, Head(s)), Tail(s))

\* n_pnls = int(n/2) - 1
NPnls(n) == (n \div 2) - 1

\* np.sum(np.repeat(pnl_rule, n_pnls)**np.linspace(0, n_pnls - 1, n_pnls))
SumSeriesFromOne(rule, p) == RSum([k \in 1..p |-> RPow(rule, k)])
SumSeries(rule, p) == RSum([k \in 1..p |-> RPow(rule, k - 1)])

\* The interval lengths delta, in the order np.cumsum adds them up.  They
\* are held in units of the scheme's total: 1 for "chord", math.pi for
\* "circle" (delta_max = 1 / sum_series, resp. math.pi / sum_series).
Delta(scheme, rule, p) ==
    IF scheme = "chord"
    THEN [i \in 1..p |-> RMul(RDiv(R1, SumSeries(rule, p)), RPow(rule, p - i))]
    ELSE [i \in 1..p |-> RMul(RDiv(R1, SumSeries(rule, p)), RPow(rule, i - 1))]

\* np.cos(c * pi) for 0 <= c <= 1.  The cosine is irrational at most
\* rational c; it is taken by Bhaskara's rational formula
\* cos(c pi) = (1 - 4 c^2) / (1 + c^2) on [0, 1/2], mirrored on [1/2, 1],
\* which is exact at c = 0, 1/3, 1/2, 2/3, 1 and within 0.2 % elsewhere.
CosHalf(c) == RDiv(RSub(R1, RMul(<<4, 1>>, RMul(c, c))), RAdd(R1, RMul(c, c)))
CosPi(c) ==
    IF RLe(c, <<1, 2>>) THEN CosHalf(c)
    ELSE RSub(R0, CosHalf(RSub(R1, c)))

\* the sampled x-coordinates (lines 95 and 99)
SampleX(scheme, rule, p) ==
    LET cum == CumSum0(R0, Delta(scheme, rule, p))
    IN  IF scheme = "chord" THEN cum
        ELSE Reverse([i \in 1..Len(cum) |->
                 RAdd(<<1, 2>>, RMul(<<1, 2>>, CosPi(cum[i])))])

\* sp.CubicSpline(x, y, bc_type="clamped") accepts its knots
SplineDefined(xk, yk) ==
    /\ Len(xk) >= 2
    /\ Len(xk) = Len(yk)
    /\ \A i \in 1..(Len(xk) - 1) : RLt(xk[i], xk[i + 1])

\* The clamped cubic spline: first derivative 0 at both ends, derivatives
\* d[i] at the inner knots from the tridiagonal system
\*   h[i] d[i-1] + 2 (h[i-1] + h[i]) d[i] + h[i-1] d[i+1]
\*       = 3 (h[i] m[i-1] + h[i-1] m[i])
\* with h[i] = x[i+1] - x[i] and m[i] = (y[i+1] - y[i]) / h[i], solved by
\* forward elimination and back substitution.
KnotH(xk, i) == RSub(xk[i + 1], xk[i])
KnotM(xk, yk, i) == RDiv(RSub(yk[i + 1], yk[i]), KnotH(xk, i))
KnotB(xk, i) == RMul(<<2, 1>>, RAdd(KnotH(xk, i - 1), KnotH(xk, i)))
KnotD(xk, yk, i) ==
    RMul(<<3, 1>>, RAdd(RMul(KnotH(xk, i), KnotM(xk, yk, i - 1)),
                        RMul(KnotH(xk, i - 1), KnotM(xk, yk, i))))

RECURSIVE ElimC(_, _)
ElimC(xk, i) ==
    IF i = 2 THEN RDiv(KnotH(xk, i - 1), KnotB(xk, i))
    ELSE RDiv(KnotH(xk, i - 1),
              RSub(KnotB(xk, i), RMul(KnotH(xk, i), ElimC(xk, i - 1))))

RECURSIVE ElimD(_, _, _)
ElimD(xk, yk, i) ==
    IF i = 2 THEN RDiv(KnotD(xk, yk, i), KnotB(xk, i))
    ELSE RDiv(RSub(KnotD(xk, yk, i), RMul(KnotH(xk, i), ElimD(xk, yk, i - 1))),
              RSub(KnotB(xk, i), RMul(KnotH(xk, i), ElimC(xk, i - 1))))

RECURSIVE KnotDeriv(_, _, _)
KnotDeriv(xk, yk, i) ==
    IF i = 1 \/ i = Len(xk) THEN R0
    ELSE RSub(ElimD(xk, yk, i), RMul(ElimC(xk, i), KnotDeriv(xk, yk, i + 1)))

\* the polynomial piece that holds x: the last knot interval starting at or
\* before x, the first (last) interval when x lies left (right) of all knots
Piece(xk, x) ==
    LET at == {i \in 1..(Len(xk) - 1) : RLe(xk[i], x)}
    IN  IF at = {} THEN 1 ELSE CHOOSE i \in at : \A j \in at : j <= i

\* f(x) for f = sp.CubicSpline(xk, yk, bc_type="clamped", extrapolate=None)
SplineEval(xk, yk, x) ==
    LET i  == Piece(xk, x)
        h  == KnotH(xk, i)
        m  == KnotM(xk, yk, i)
        d0 == KnotDeriv(xk, yk, i)
        d1 == KnotDeriv(xk, yk, i + 1)
        t  == RDiv(RSub(RAdd(d0, d1), RMul(<<2, 1>>, m)), h)
        c0 == RDiv(t, h)
        c1 == RSub(RDiv(RSub(m, d0), h), t)
        u  == RSub(x, xk[i])
    IN  RAdd(yk[i], RMul(u, RAdd(d0, RMul(u, RAdd(c1, RMul(u, c0))))))

XKey(suffix) == IF suffix = "suction" THEN "x_suction" ELSE "x_pressure"
YKey(suffix) == IF suffix = "suction" THEN "y_suction" ELSE "y_pressure"
Other(suffix) == IF suffix = "suction" THEN "pressure" ELSE "suction"

\* y = f(x) for the surface named by suffix (lines 104-105)
InterpSurfaceSwapped(coords, suffix, x) ==
    [i \in 1..Len(x) |->
        SplineEval(coords[XKey(Other(suffix))], coords[YKey(Other(suffix))], x[i])]
InterpSurface(coords, suffix, x) ==
    [i \in 1..Len(x) |->
        SplineEval(coords[XKey(suffix)], coords[YKey(suffix)], x[i])]

\* the call raises: np.repeat with a negative count, or CubicSpline
\* refusing the knots of either surface
splineInterpolationRaises(coords, n) ==
    \/ NPnls(n) < 0
    \/ ~SplineDefined(coords.x_suction, coords.y_suction)
    \/ ~SplineDefined(coords.x_pressure, coords.y_pressure)

\* the dictionary coords_interp returned
splineInterpolation(coords, n, pnl_scheme, pnl_rule) ==
    LET x  == SampleX(pnl_scheme, pnl_rule, NPnls(n))
        ys == InterpSurface(coords, "suction", x)
        yp == InterpSurface(coords, "pressure", x)
    IN  [x          |-> Assemble(x, x),
         y          |-> Assemble(yp, ys),
         x_suction  |-> x, y_suction  |-> ys,
         x_pressure |-> x, y_pressure |-> yp]

\* ----------------------------------------------------------------- inputs
RawPoints == { <<R0, R0>>, <<R1, R0>>, <<Rat(1, 2), Rat(1, 10)>>,
               <<Rat(1, 2), Rat(-1, 10)>>, <<R0, Rat(1, 10)>> }

RECURSIVE SeqsUpTo(_, _)
SeqsUpTo(S, n) ==
    IF n = 0 THEN {<<>>}
    ELSE LET r == SeqsUpTo(S, n - 1)
         IN  r \cup {Append(t, e) : t \in {u \in r : Len(u) = n - 1}, e \in S}

NoFileRead ==
    lineNo = 0 /\ tokens = <<>> /\ xlist = <<>> /\ ylist = <<>> /\ xline = <<>> /\ yline = <<>>

NoCoordinates == [x |-> <<>>, y |-> <<>>, x_suction |-> <<>>, y_suction |-> <<>>,
                  x_pressure |-> <<>>, y_pressure |-> <<>>]

\* ---------------------------------------------------------- SpecParse
InitParse ==
    /\ \E pts \in SeqsUpTo(RawPoints, MaxPts) :
          /\ xraw = Xs(pts)
          /\ yraw = Ys(pts)
    /\ coordinates = NoCoordinates
    /\ temp = <<>>
    /\ limits = <<>>
    /\ outcome = "none"
    /\ parsed = NoCoordinates
    /\ lastCall = <<>>
    /\ repeated = FALSE
    /\ ncalls = 0
    /\ delta = <<>>
    /\ NoFileRead

\* parseCoordinates(x, y) on a non-empty point set
ParseReturns ==
    /\ outcome = "none"
    /\ Len(xraw) > 0
    /\ \E t \in ArgSort(xraw) :
          /\ temp' = t
          /\ coordinates' = parseCoordinates(xraw, yraw, t)
          /\ limits' = <<Limits1(t), Limits2(t)>>
    /\ outcome' = "returned"
    /\ UNCHANGED <<xraw, yraw, airfoilVars, uiucVars>>

\* parseCoordinates([], []): min() of the empty slice temp[:2] raises
ParseRaises ==
    /\ outcome = "none"
    /\ Len(xraw) = 0
    /\ outcome' = "ValueError"
    /\ UNCHANGED <<parseVars, airfoilVars, uiucVars>>

NextParse == ParseReturns \/ ParseRaises

SpecParse == InitParse /\ [][NextParse]_vars

\* -------------------------------------------------------- SpecAirfoil
\* raw point sets as the coordinate source delivers them
Lednicer6 == << <<R0, R0>>, <<Rat(1, 2), Rat(1, 10)>>, <<R1, R0>>,
                <<R0, R0>>, <<Rat(1, 2), Rat(-1, 10)>>, <<R1, R0>> >>
Selig5    == << <<R1, R0>>, <<Rat(1, 2), Rat(1, 10)>>, <<R0, R0>>,
                <<Rat(1, 2), Rat(-1, 10)>>, <<R1, R0>> >>
Cambered6 == << <<R0, R0>>, <<Rat(1, 4), Rat(1, 10)>>, <<R1, R0>>,
                <<R0, R0>>, <<Rat(1, 2), Rat(1, 20)>>, <<R1, R0>> >>
Diamond4  == Zip(<<R0, R1, Rat(1, 2), Rat(1, 2)>>,
                 <<R0, R0, Rat(1, 10), Rat(-1, 10)>>)
Stacked4  == << <<R0, R0>>, <<R0, Rat(1, 10)>>, <<R1, R0>>, <<R1, R0>> >>

Catalog == {Lednicer6, Selig5, Cambered6, Diamond4, Stacked4}

Schemes == {"chord", "circle"}
Rules   == {Rat(1, 2), R1, <<2, 1>>}

\* the object after Airfoil.__init__(code)
InitAirfoil ==
    /\ \E pts \in Catalog :
          /\ xraw = Xs(pts)
          /\ yraw = Ys(pts)
    /\ \E t \in ArgSort(xraw) : coordinates = parseCoordinates(xraw, yraw, t)
    /\ temp = <<>>          \* locals of parseCoordinates, gone when it returns
    /\ limits = <<>>
    /\ parsed = coordinates
    /\ outcome = "constructed"
    /\ lastCall = <<>>
    /\ repeated = FALSE
    /\ ncalls = 0
    /\ delta = <<>>
    /\ NoFileRead

\* Airfoil.splineInterpolation(n, pnl_scheme, pnl_rule) returning
Resample(n, pnl_scheme, pnl_rule) ==
    /\ ncalls < MaxCalls
    /\ ~splineInterpolationRaises(coordinates, n)
    /\ coordinates' = splineInterpolation(coordinates, n, pnl_scheme, pnl_rule)
    /\ delta' = Delta(pnl_scheme, pnl_rule, NPnls(n))
    /\ lastCall' = <<n, pnl_scheme, pnl_rule>>
    /\ repeated' = (lastCall = <<n, pnl_scheme, pnl_rule>>)
    /\ ncalls' = ncalls + 1
    /\ outcome' = "resampled"
    /\ UNCHANGED <<xraw, yraw, temp, limits, parsed, uiucVars>>

\* Airfoil.splineInterpolation(n, pnl_scheme, pnl_rule) raising: the
\* assignment to self.coordinates is not reached
ResampleRaises(n, pnl_scheme, pnl_rule) ==
    /\ ncalls < MaxCalls
    /\ splineInterpolationRaises(coordinates, n)
    /\ delta' = IF NPnls(n) < 0 THEN <<>> ELSE Delta(pnl_scheme, pnl_rule, NPnls(n))
    /\ lastCall' = <<n, pnl_scheme, pnl_rule>>
    /\ repeated' = (lastCall = <<n, pnl_scheme, pnl_rule>>)
    /\ ncalls' = ncalls + 1
    /\ outcome' = "ValueError"
    /\ UNCHANGED <<parseVars, parsed, uiucVars>>

NextAirfoil ==
    \E n \in 0..MaxN, pnl_scheme \in Schemes, pnl_rule \in Rules :
        \/ Resample(n, pnl_scheme, pnl_rule)
        \/ ResampleRaises(n, pnl_scheme, pnl_rule)

SpecAirfoil == InitAirfoil /\ [][NextAirfoil]_vars

\* ----------------------------------------------------------- SpecUiuc
\* A line of the .dat file is the list line.split() of its tokens; a token
\* is a sequence of characters.
DigitChars == <<"0", "1", "2", "3", "4", "5", "6", "7", "8", "9">>
IsDigit(c) == \E i \in 1..10 : DigitChars[i] = c
DigitValue(c) == (CHOOSE i \in 1..10 : DigitChars[i] = c) - 1

\* s.replace(".", "")
RECURSIVE WithoutDots(_)
WithoutDots(s) ==
    IF s = <<>> THEN <<>>
    ELSE IF Head(s) = "." THEN WithoutDots(Tail(s))
    ELSE <<Head(s)>> \o WithoutDots(Tail(s))

Unsigned(s) == IF s # <<>> /\ Head(s) \in {"-", "+"} THEN Tail(s) ELSE s
DotCount(s) == Cardinality({i \in 1..Len(s) : s[i] = "."})

\* float(s) does not raise ValueError: an optional sign, then digits with
\* at most one decimal point and at least one digit
IsFloat(s) ==
    LET u == Unsigned(s)
    IN  /\ \A i \in 1..Len(u) : IsDigit(u[i]) \/ u[i] = "."
        /\ DotCount(u) <= 1
        /\ Len(WithoutDots(u)) >= 1

RECURSIVE DigitsValue(_, _)
DigitsValue(acc, s) ==
    IF s = <<>> THEN acc ELSE DigitsValue(10 * acc + DigitValue(Head(s)), Tail(s))

RECURSIVE Pow10(_)
Pow10(k) == IF k = 0 THEN 1 ELSE 10 * Pow10(k - 1)

\* the digits that follow the decimal point
FractionLen(u) ==
    IF DotCount(u) = 0 THEN 0
    ELSE Len(u) - (CHOOSE i \in 1..Len(u) : u[i] = ".")

\* float(s) for a string float() accepts
Float(s) ==
    LET u == Unsigned(s)
        v == Rat(DigitsValue(0, WithoutDots(u)), Pow10(FractionLen(u)))
    IN  IF s # <<>> /\ Head(s) = "-" THEN <<-v[1], v[2]>> ELSE v

\* tokens met in a .dat file: coordinates, a numeric header, a name, a
\* malformed number
Tokens == { <<"0", ".", "5", "0", "0", "0">>,
            <<"-", "0", ".", "1", "0", "0", "0">>,
            <<"1", ".", "0", "0", "0", "0">>,
            <<"1", "7", ".", "0">>,
            <<"N", "A", "C", "A">>,
            <<"0", ".", "1", ".", "0", "0">> }

Lines == SeqsUpTo(Tokens, 3)

\* the state when the for loop over the lines starts (lines 58-59)
InitUiuc ==
    /\ NoFileRead
    /\ xraw = <<>> /\ yraw = <<>>
    /\ coordinates = NoCoordinates
    /\ temp = <<>> /\ limits = <<>>
    /\ outcome = "none"
    /\ parsed = NoCoordinates
    /\ lastCall = <<>>
    /\ repeated = FALSE
    /\ ncalls = 0
    /\ delta = <<>>

Reading == outcome = "none" /\ lineNo < MaxLines

\* len(temp) != 2: continue
SkipNotTwoItems(line) ==
    /\ Reading
    /\ Len(line) # 2
    /\ lineNo' = lineNo + 1
    /\ tokens' = line
    /\ UNCHANGED <<xlist, ylist, xline, yline, outcome, parseVars, airfoilVars>>

IsNumericHeader(line) ==
    Len(WithoutDots(line[1])) + Len(WithoutDots(line[2])) <= 6

\* the numeric header test holds: continue
SkipNumericHeader(line) ==
    /\ Reading
    /\ Len(line) = 2
    /\ IsNumericHeader(line)
    /\ lineNo' = lineNo + 1
    /\ tokens' = line
    /\ UNCHANGED <<xlist, ylist, xline, yline, outcome, parseVars, airfoilVars>>

\* both float() calls succeed: x.append, y.append
AppendBoth(line) ==
    /\ Reading
    /\ Len(line) = 2
    /\ ~IsNumericHeader(line)
    /\ IsFloat(line[1]) /\ IsFloat(line[2])
    /\ lineNo' = lineNo + 1
    /\ tokens' = line
    /\ xlist' = Append(xlist, Float(line[1]))
    /\ xline' = Append(xline, lineNo + 1)
    /\ ylist' = Append(ylist, Float(line[2]))
    /\ yline' = Append(yline, lineNo + 1)
    /\ UNCHANGED <<outcome, parseVars, airfoilVars>>

\* float(temp[0]) raises ValueError: nothing is appended, except: pass
FirstNotFloat(line) ==
    /\ Reading
    /\ Len(line) = 2
    /\ ~IsNumericHeader(line)
    /\ ~IsFloat(line[1])
    /\ lineNo' = lineNo + 1
    /\ tokens' = line
    /\ UNCHANGED <<xlist, ylist, xline, yline, outcome, parseVars, airfoilVars>>

\* x.append(float(temp[0])) is done, then float(temp[1]) raises
\* ValueError: except: pass
SecondNotFloat(line) ==
    /\ Reading
    /\ Len(line) = 2
    /\ ~IsNumericHeader(line)
    /\ IsFloat(line[1]) /\ ~IsFloat(line[2])
    /\ lineNo' = lineNo + 1
    /\ tokens' = line
    /\ xlist' = Append(xlist, Float(line[1]))
    /\ xline' = Append(xline, lineNo + 1)
    /\ UNCHANGED <<ylist, yline, outcome, parseVars, airfoilVars>>

\* the file has no more lines: return {"code": code, "x": x, "y": y}
ReturnCoordinates ==
    /\ outcome = "none"
    /\ outcome' = "returned"
    /\ UNCHANGED <<uiucVars, parseVars, airfoilVars>>

NextUiuc ==
    \/ \E line \in Lines :
          \/ SkipNotTwoItems(line)
          \/ SkipNumericHeader(line)
          \/ AppendBoth(line)
          \/ FirstNotFloat(line)
          \/ SecondNotFloat(line)
    \/ ReturnCoordinates

SpecUiuc == InitUiuc /\ [][NextUiuc]_vars

\* ------------------------------------------- claims on parseCoordinates
Returned == outcome = "returned"

LastOf(s) == s[Len(s)]

StrictlyIncreasing(s) == \A i \in 1..(Len(s) - 1) : RLt(s[i], s[i + 1])

Range(l) == l[1]..l[2]

\* the raw slices y[limits_surf1[0]:limits_surf1[1] + 1] and its twin
RawY(k) == SubSeq(yraw, limits[k][1], limits[k][2])
RawX(k) == SubSeq(xraw, limits[k][1], limits[k][2])

\* the returned suction surface was built from raw slice s, the pressure
\* surface from raw slice p
BuiltFrom(s, p) ==
    /\ coordinates.x_suction  = Xs(Surface(RawX(s), RawY(s)))
    /\ coordinates.y_suction  = Ys(Surface(RawX(s), RawY(s)))
    /\ coordinates.x_pressure = Xs(Surface(RawX(p), RawY(p)))
    /\ coordinates.y_pressure = Ys(Surface(RawX(p), RawY(p)))

\* C1: whenever parseCoordinates returns, the contour starts and ends at
\* the trailing edge (1.0, 0.0).
C1_ContourClosed ==
    Returned =>
        /\ coordinates.x[1] = R1 /\ coordinates.y[1] = R0
        /\ LastOf(coordinates.x) = R1 /\ LastOf(coordinates.y) = R0

C1_Witness ==
    /\ Returned
    /\ Len(xraw) >= 4
    /\ Range(limits[1]) \cap Range(limits[2]) = {}
    /\ StrictlyIncreasing(coordinates.x_suction)
    /\ StrictlyIncreasing(coordinates.x_pressure)
    /\ Len(coordinates.x_suction) >= 3
    /\ Len(coordinates.x) >= 4

DiamondParsed == Returned /\ xraw = Xs(Diamond4) /\ yraw = Ys(Diamond4)

\* C2 as stated: the diamond x=[0,1,0.5,0.5], y=[0,0,0.1,-0.1] splits into
\* suction [(0,0),(0.5,0.1),(1,0)], pressure [(0,0),(0.5,-0.1),(1,0)] and
\* the 5-point contour [(1,0),(0.5,-0.1),(0,0),(0.5,0.1),(1,0)].
C2_DiamondAsStated ==
    DiamondParsed =>
        /\ coordinates.x_suction  = <<R0, Rat(1, 2), R1>>
        /\ coordinates.y_suction  = <<R0, Rat(1, 10), R0>>
        /\ coordinates.x_pressure = <<R0, Rat(1, 2), R1>>
        /\ coordinates.y_pressure = <<R0, Rat(-1, 10), R0>>
        /\ coordinates.x = <<R1, Rat(1, 2), R0, Rat(1, 2), R1>>
        /\ coordinates.y = <<R0, Rat(-1, 10), R0, Rat(1, 10), R0>>

\* C2 amended: for the diamond in that point order both measured mid-chord
\* points are discarded; suction and pressure are both [(0,0),(1,0)] and
\* the contour is the 3 points [(1,0),(0,0),(1,0)].
C2_DiamondDegenerate ==
    DiamondParsed =>
        /\ coordinates.x_suction  = <<R0, R1>>
        /\ coordinates.y_suction  = <<R0, R0>>
        /\ coordinates.x_pressure = <<R0, R1>>
        /\ coordinates.y_pressure = <<R0, R0>>
        /\ coordinates.x = <<R1, R0, R1>>
        /\ coordinates.y = <<R0, R0, R0>>

C2_Witness == DiamondParsed /\ limits = <<<<1, 2>>, <<3, 4>>>>

\* C3: on a raw point set with fewer than 4 points parseCoordinates ends
\* in MalformedGeometry; in particular (the part stated here) it never
\* returns a contour or surfaces for such a set.
C3_FewPointsNeverReturn ==
    Len(xraw) < 4 => ~Returned

\* C4: both returned surfaces have strictly increasing x from 0.0 to 1.0.
C4_SurfacesStrictlyIncreasing ==
    Returned =>
        /\ StrictlyIncreasing(coordinates.x_suction)
        /\ StrictlyIncreasing(coordinates.x_pressure)

\* C7 as stated: the returned suction surface has a maximum y that is at
\* least the maximum y of the returned pressure surface.
C7_ReturnedSuctionIsUpper ==
    Returned => RLe(MaxRat(coordinates.y_pressure), MaxRat(coordinates.y_suction))

\* C7 amended: the comparison is made on the raw slices, before their end
\* points are discarded: the suction surface is built from the raw slice
\* whose maximum y is at least that of the slice the pressure surface is
\* built from (slice 1 only when its maximum is strictly greater).
C7_RawSuctionIsUpper ==
    Returned =>
        \/ BuiltFrom(1, 2) /\ RLt(MaxRat(RawY(2)), MaxRat(RawY(1)))
        \/ BuiltFrom(2, 1) /\ RLe(MaxRat(RawY(1)), MaxRat(RawY(2)))

C7_Witness ==
    /\ Returned
    /\ Len(xraw) >= 4
    /\ RLt(MaxRat(RawY(2)), MaxRat(RawY(1)))
    /\ Range(limits[1]) \cap Range(limits[2]) = {}
    /\ StrictlyIncreasing(coordinates.x_suction)
    /\ Len(coordinates.x_suction) >= 3
    /\ BuiltFrom(1, 2)
    /\ ~BuiltFrom(2, 1)

\* C8 as stated: with at least 4 points the two inclusive index ranges
\* share no index.
C8_RangesDisjoint ==
    (Returned /\ Len(xraw) >= 4) => Range(limits[1]) \cap Range(limits[2]) = {}

\* the index span of the two smallest-x points and that of the two
\* largest-x points have an index in common
BoundarySpansOverlap ==
    /\ MinInt(First2(temp)) < MaxInt(Last2(temp))
    /\ MinInt(Last2(temp)) < MaxInt(First2(temp))

\* C8 amended: with at least 4 points the two ranges are index-disjoint
\* exactly when the index span of the two smallest-x points overlaps the
\* index span of the two largest-x points (a boundary traced from one edge
\* around the other and back); otherwise they share an index.
C8_DisjointIffSpansOverlap ==
    (Returned /\ Len(xraw) >= 4) =>
        ((Range(limits[1]) \cap Range(limits[2]) = {}) <=> BoundarySpansOverlap)

C8_Witness ==
    /\ Returned
    /\ Len(xraw) >= 5
    /\ BoundarySpansOverlap
    /\ Range(limits[1]) \cap Range(limits[2]) = {}
    /\ Range(limits[1]) \cup Range(limits[2]) = 1..Len(xraw)
    /\ StrictlyIncreasing(coordinates.x_suction)
    /\ Len(coordinates.x_suction) >= 3

\* ------------------------------------- claims on Airfoil.splineInterpolation
Resampled == outcome = "resampled"

LastN      == lastCall[1]
LastScheme == lastCall[2]
LastRule   == lastCall[3]

\* C5: a resample call works from the parsed surfaces kept since
\* construction, so after any calls the object holds what a freshly
\* constructed object holds after the last call alone.
C5_ResampleFromParsed ==
    (Resampled /\ ~splineInterpolationRaises(parsed, LastN)) =>
        coordinates = splineInterpolation(parsed, LastN, LastScheme, LastRule)

EachIsRuleTimesNext ==
    \A i \in 1..(Len(delta) - 1) : delta[i] = RMul(LastRule, delta[i + 1])

EachIsRuleTimesPrevious ==
    \A i \in 1..(Len(delta) - 1) : delta[i + 1] = RMul(LastRule, delta[i])

IntervalsComputed == Resampled /\ NPnls(LastN) >= 1

\* C9 as stated: for both schemes the p = floor(n/2) - 1 intervals, in the
\* order they are summed up, each equal rule times the next one, and they
\* sum to the scheme's total.
C9_IntervalsAsStated ==
    IntervalsComputed =>
        /\ Len(delta) = NPnls(LastN)
        /\ EachIsRuleTimesNext
        /\ RSum(delta) = R1

\* C9 amended: the p intervals sum to the scheme's total; in the order
\* they are summed up each interval equals rule times the next one for the
\* chord scheme, and rule times the previous one for the circle scheme
\* (interval i is proportional to rule^(i - 1) there; the order rule^(p - i)
\* appears only after the sampled x are reversed).
C9_IntervalsPerScheme ==
    IntervalsComputed =>
        /\ Len(delta) = NPnls(LastN)
        /\ LastScheme = "chord" => EachIsRuleTimesNext
        /\ LastScheme = "circle" => EachIsRuleTimesPrevious
        /\ RSum(delta) = R1

C9_Witness ==
    /\ IntervalsComputed
    /\ LastScheme = "circle"
    /\ LastRule = Rat(1, 2)
    /\ Len(delta) >= 2
    /\ ~EachIsRuleTimesNext

\* ------------------------------------ claims on requestAirfoilCoordinates
\* C10: the returned x and y have equal length and x[i], y[i] come from
\* the same line; a line whose second token is no float adds to neither.
C10_ListsPaired ==
    Returned => (Len(xlist) = Len(ylist) /\ xline = yline)

====
